---- MODULE Spec2Model ----
(***************************************************************************)
(* NaturalToSql: the retrieval-augmented SQL generation pipeline.           *)
(*   backend/app/services/llm_service.py   EnhancedLLMService               *)
(*   backend/app/services/rag_service.py   RAGService                       *)
(*   backend/app/api/endpoints/sql_generator.py   the HTTP endpoints        *)
(* A Python str is a sequence of one-character strings, so that substring   *)
(* tests, split, strip and join are computed the way the code computes them.*)
(***************************************************************************)
EXTENDS Integers, Sequences, FiniteSets, TLC

VARIABLES
    llm,         \* self.llm is not None (llm_service.py:9)
    collection,  \* the ChromaDB collection "sql_knowledge" (rag_service.py:14-22)
    hashSeed,    \* the per-process seed of Python's str hash (rag_service.py:342)
    history,     \* the query_history table (models.py:5-12)
    pc,          \* position of the request being handled
    question,    \* the question of the request
    response,    \* response.content of the model invocation (llm_service.py:110)
    parts,       \* how a fenced model output was put together (NoParts otherwise)
    prompt,      \* the prompt handed to llm.invoke (llm_service.py:104)
    sql,         \* the string generate_sql / _clean_sql_response / _fallback_sql returned
    path,        \* which return statement of generate_sql produced sql
    invoked,     \* number of llm.invoke calls made by the request
    retrieved,   \* number of retrieve_context calls made by the request
    context,     \* the list retrieve_context returned (llm_service.py:93)
    raisedAt,    \* the step of generate_sql's try block that raised, "none" if none did
    backendRaised, \* collection.query raised during the request (rag_service.py:317)
    population,  \* the locals of the last populate_knowledge_base (rag_service.py:42-238)
    database,    \* the relational database where a specification follows it: its tables and
                 \* the number of rows of each (config.py database_url)
    threads,     \* the calls in progress when calls run concurrently, <<>> otherwise
    reply        \* the QueryResponse of the endpoint

vars == <<llm, collection, hashSeed, history, pc, question, response, parts, prompt,
          sql, path, invoked, retrieved, context, raisedAt, backendRaised, population,
          threads, database, reply>>

-----------------------------------------------------------------------------
(* Bounds of the model *)

\* most words in a question of SpecFallback
MaxWords == 3
\* most pieces in a raw model output of SpecClean
MaxPieces == 5
\* most lines inside the fence of a fenced model output of SpecClean
MaxLines == 2

-----------------------------------------------------------------------------
(* Python str operations *)

\* str.strip() / str.rstrip() with no argument remove these
Whitespace == {" ", "\n", "\t", "\r"}

RECURSIVE LStrip(_)
LStrip(s) == IF s # <<>> /\ Head(s) \in Whitespace THEN LStrip(Tail(s)) ELSE s

RECURSIVE RStrip(_)
RStrip(s) ==
    IF s # <<>> /\ s[Len(s)] \in Whitespace THEN RStrip(SubSeq(s, 1, Len(s) - 1)) ELSE s

Strip(s) == LStrip(RStrip(s))

StartsWith(s, p) == Len(s) >= Len(p) /\ SubSeq(s, 1, Len(p)) = p

EndsWith(s, p) == Len(s) >= Len(p) /\ SubSeq(s, Len(s) - Len(p) + 1, Len(s)) = p

\* the positions at which p occurs in s
Occurrences(s, p) == {i \in 1..(Len(s) - Len(p) + 1) : SubSeq(s, i, i + Len(p) - 1) = p}

\* p in s
Contains(s, p) == Occurrences(s, p) # {}

Min(S) == CHOOSE x \in S : \A y \in S : x <= y

\* s.split(sep): the pieces between the non-overlapping occurrences of sep, left to right
RECURSIVE Split(_, _)
Split(s, sep) ==
    IF Occurrences(s, sep) = {} THEN <<s>>
    ELSE LET i == Min(Occurrences(s, sep))
         IN  <<SubSeq(s, 1, i - 1)>> \o Split(SubSeq(s, i + Len(sep), Len(s)), sep)

\* sep.join(items)
RECURSIVE Join(_, _)
Join(items, sep) ==
    IF items = <<>> THEN <<>>
    ELSE IF Len(items) = 1 THEN items[1]
    ELSE items[1] \o sep \o Join(Tail(items), sep)

UpperLetters == <<"A","B","C","D","E","F","G","H","I","J","K","L","M",
                  "N","O","P","Q","R","S","T","U","V","W","X","Y","Z">>
LowerLetters == <<"a","b","c","d","e","f","g","h","i","j","k","l","m",
                  "n","o","p","q","r","s","t","u","v","w","x","y","z">>

LowerChar(c) ==
    IF \E i \in 1..Len(UpperLetters) : UpperLetters[i] = c
    THEN LowerLetters[CHOOSE i \in 1..Len(UpperLetters) : UpperLetters[i] = c]
    ELSE c

\* str.lower()
Lower(s) == [i \in 1..Len(s) |-> LowerChar(s[i])]

Digits == {"0","1","2","3","4","5","6","7","8","9"}

-----------------------------------------------------------------------------
(* EnhancedLLMService._clean_sql_response *)

\* the backquote character (a TLA+ string cannot hold one, so it is named)
Backquote == "BACKQUOTE"
Fence == <<Backquote, Backquote, Backquote>>
FenceSql == Fence \o <<"s","q","l">>
Newline == <<"\n">>
Semicolon == <<";">>
CommentMarker == <<"-","-">>
SpacedCommentMarker == <<"-","-"," ">>

\* lines 179-184: the text of the first fenced block, or the whole response
StripFences(s) ==
    IF Contains(s, FenceSql) THEN Strip(Split(Split(s, FenceSql)[2], Fence)[1])
    ELSE IF Contains(s, Fence) THEN Strip(Split(s, Fence)[2])
    ELSE s

\* line 191, on a stripped line
KeepLine(line) ==
    line # <<>> /\ (~StartsWith(line, CommentMarker) \/ StartsWith(line, SpacedCommentMarker))

\* lines 187-194
FilterLines(s) ==
    LET lines == Split(s, Newline)
        stripped == [i \in 1..Len(lines) |-> Strip(lines[i])]
    IN  Join(SelectSeq(stripped, KeepLine), Newline)

\* the statement returned as the line filter left it
NoSemicolon(s) == s

\* a terminator appended without looking at the end of the statement
AlwaysAppendSemicolon(s) == RStrip(s) \o Semicolon

\* lines 197-199
EnsureSemicolon(s) == IF ~EndsWith(RStrip(s), Semicolon) THEN RStrip(s) \o Semicolon ELSE s

\* lines 172-202
_clean_sql_response(r) == EnsureSemicolon(FilterLines(StripFences(Strip(r))))

-----------------------------------------------------------------------------
(* EnhancedLLMService._fallback_sql *)

Kw_delete == <<"d","e","l","e","t","e">>
Kw_drop == <<"d","r","o","p">>
Kw_table == <<"t","a","b","l","e">>
Kw_all == <<"a","l","l">>
Kw_users == <<"u","s","e","r","s">>
Kw_city == <<"c","i","t","y">>
Kw_orders == <<"o","r","d","e","r","s">>
Kw_amount == <<"a","m","o","u","n","t">>
Kw_price == <<"p","r","i","c","e">>
Kw_count == <<"c","o","u","n","t">>
Kw_join == <<"j","o","i","n">>
Kw_under == <<"u","n","d","e","r">>
Kw_age == <<"a","g","e">>

\* llm_service.py:87
PlaceholderHead ==
    <<"-","-"," ","N","o"," ","A","P","I"," ","k","e","y"," ","c","o","n","f","i","g","u","r",
      "e","d","\n","-","-"," ","G","e","n","e","r","a","t","e","d"," ","f","r","o","m",":"," ">>

\* llm_service.py:87
PlaceholderTail ==
    <<"\n","S","E","L","E","C","T"," ","*"," ","F","R","O","M"," ","u","s","e","r","s"," ","L",
      "I","M","I","T"," ","5",";">>

\* llm_service.py:215-218
DropAllSql ==
    <<"-","-"," ","D","r","o","p"," ","a","l","l"," ","t","a","b","l","e","s"," ","(","C","A",
      "S","C","A","D","E"," ","h","a","n","d","l","e","s"," ","d","e","p","e","n","d","e","n",
      "c","i","e","s",")","\n"," "," "," "," ","D","R","O","P"," ","T","A","B","L","E"," ","I",
      "F"," ","E","X","I","S","T","S"," ","o","r","d","e","r","s"," ","C","A","S","C","A","D",
      "E",";","\n"," "," "," "," ","D","R","O","P"," ","T","A","B","L","E"," ","I","F"," ","E",
      "X","I","S","T","S"," ","u","s","e","r","s"," ","C","A","S","C","A","D","E",";","\n"," ",
      " "," "," ","D","R","O","P"," ","T","A","B","L","E"," ","I","F"," ","E","X","I","S","T",
      "S"," ","q","u","e","r","y","_","h","i","s","t","o","r","y"," ","C","A","S","C","A","D",
      "E",";">>

\* llm_service.py:220
DropOneSql ==
    <<"-","-"," ","E","x","a","m","p","l","e",":"," ","D","R","O","P"," ","T","A","B","L","E",
      " ","t","a","b","l","e","_","n","a","m","e"," ","C","A","S","C","A","D","E",";","\n","S",
      "E","L","E","C","T"," ","'","S","p","e","c","i","f","y"," ","w","h","i","c","h"," ","t",
      "a","b","l","e"," ","t","o"," ","d","r","o","p","'"," ","a","s"," ","m","e","s","s","a",
      "g","e",";">>

\* llm_service.py:222
CitySql ==
    <<"S","E","L","E","C","T"," ","*"," ","F","R","O","M"," ","u","s","e","r","s"," ","W","H",
      "E","R","E"," ","c","i","t","y"," ","="," ","'","N","e","w"," ","Y","o","r","k","'"," ",
      "L","I","M","I","T"," ","1","0",";">>

\* llm_service.py:224
AmountSql ==
    <<"S","E","L","E","C","T"," ","*"," ","F","R","O","M"," ","o","r","d","e","r","s"," ","W",
      "H","E","R","E"," ","a","m","o","u","n","t"," ",">"," ","1","0","0"," ","O","R","D","E",
      "R"," ","B","Y"," ","a","m","o","u","n","t"," ","D","E","S","C"," ","L","I","M","I","T",
      " ","1","0",";">>

\* llm_service.py:226
CountSql ==
    <<"S","E","L","E","C","T"," ","C","O","U","N","T","(","*",")"," ","a","s"," ","u","s","e",
      "r","_","c","o","u","n","t"," ","F","R","O","M"," ","u","s","e","r","s",";">>

\* llm_service.py:228
JoinSql ==
    <<"S","E","L","E","C","T"," ","u",".","n","a","m","e",","," ","o",".","p","r","o","d","u",
      "c","t",","," ","o",".","a","m","o","u","n","t"," ","F","R","O","M"," ","u","s","e","r",
      "s"," ","u"," ","J","O","I","N"," ","o","r","d","e","r","s"," ","o"," ","O","N"," ","u",
      ".","i","d"," ","="," ","o",".","u","s","e","r","_","i","d"," ","L","I","M","I","T"," ",
      "1","0",";">>

\* llm_service.py:234
AgeSqlHead ==
    <<"S","E","L","E","C","T"," ","*"," ","F","R","O","M"," ","u","s","e","r","s"," ","W","H",
      "E","R","E"," ","a","g","e"," ","<"," ">>

\* llm_service.py:234
AgeSqlTail ==
    <<" ","L","I","M","I","T"," ","1","0",";">>

\* llm_service.py:238
GenericHead ==
    <<"-","-"," ","F","a","l","l","b","a","c","k"," ","q","u","e","r","y"," ","f","o","r",":",
      " ">>

\* llm_service.py:238
GenericTail ==
    <<"\n","S","E","L","E","C","T"," ","*"," ","F","R","O","M"," ","u","s","e","r","s"," ","L",
      "I","M","I","T"," ","1","0",";">>

\* line 231: re.search(r'under\s+(\d+)', s): the digits of the leftmost match, or <<>>
RegexSpace == {" ", "\t", "\n", "\r"}

RECURSIVE SkipSpace(_, _)
SkipSpace(s, i) == IF i <= Len(s) /\ s[i] \in RegexSpace THEN SkipSpace(s, i + 1) ELSE i

RECURSIVE DigitsEnd(_, _)
DigitsEnd(s, i) == IF i <= Len(s) /\ s[i] \in Digits THEN DigitsEnd(s, i + 1) ELSE i

UnderMatches(s) ==
    {i \in Occurrences(s, Kw_under) :
        /\ SkipSpace(s, i + 5) > i + 5
        /\ DigitsEnd(s, SkipSpace(s, i + 5)) > SkipSpace(s, i + 5)}

AgeMatch(s) ==
    IF UnderMatches(s) = {} THEN <<>>
    ELSE LET i == Min(UnderMatches(s))
             j == SkipSpace(s, i + 5)
         IN  SubSeq(s, j, DigitsEnd(s, j) - 1)

DefaultAge == <<"2","5">>

\* lines 229-236
AgeSql(question_lower) ==
    IF AgeMatch(question_lower) # <<>>
    THEN AgeSqlHead \o AgeMatch(question_lower) \o AgeSqlTail
    ELSE AgeSqlHead \o DefaultAge \o AgeSqlTail

\* lines 206-241
\* the cascade with the join rule tested before the count rule
JoinBeforeCount(q) ==
    LET question_lower == Lower(q)
        Has(k) == Contains(question_lower, k)
    IN  IF (Has(Kw_delete) \/ Has(Kw_drop)) /\ Has(Kw_table)
        THEN IF Has(Kw_all) THEN DropAllSql ELSE DropOneSql
        ELSE IF Has(Kw_users) /\ Has(Kw_city) THEN CitySql
        ELSE IF Has(Kw_orders) /\ (Has(Kw_amount) \/ Has(Kw_price)) THEN AmountSql
        ELSE IF Has(Kw_join) \/ (Has(Kw_users) /\ Has(Kw_orders)) THEN JoinSql
        ELSE IF Has(Kw_count) /\ Has(Kw_users) THEN CountSql
        ELSE IF Has(Kw_under) /\ Has(Kw_age) THEN AgeSql(question_lower)
        ELSE GenericHead \o q \o GenericTail

\* lines 206-241
_fallback_sql(q) ==
    LET question_lower == Lower(q)
        Has(k) == Contains(question_lower, k)
    IN  IF (Has(Kw_delete) \/ Has(Kw_drop)) /\ Has(Kw_table)
        THEN IF Has(Kw_all) THEN DropAllSql ELSE DropOneSql
        ELSE IF Has(Kw_users) /\ Has(Kw_city) THEN CitySql
        ELSE IF Has(Kw_orders) /\ (Has(Kw_amount) \/ Has(Kw_price)) THEN AmountSql
        ELSE IF Has(Kw_count) /\ Has(Kw_users) THEN CountSql
        ELSE IF Has(Kw_join) \/ (Has(Kw_users) /\ Has(Kw_orders)) THEN JoinSql
        ELSE IF Has(Kw_under) /\ Has(Kw_age) THEN AgeSql(question_lower)
        ELSE GenericHead \o q \o GenericTail

-----------------------------------------------------------------------------
(* RAGService: the knowledge store and its curator (rag_service.py)          *)
(* The collection is the sequence of its documents in insertion order. A     *)
(* document is [id, content, metadata]; a fixed text of the source is one    *)
(* element of a string, named after it.                                      *)

\* metadata values, tagged with their Python type
Str(v) == [kind |-> "str", val |-> v]
Bool(b) == [kind |-> "bool", val |-> b]

IntV(n) == [kind |-> "int", val |-> n]
FloatV(whole, frac) == [kind |-> "float", val |-> <<whole, frac>>]
None == [kind |-> "none", val |-> "None"]
List(vs) == [kind |-> "list", val |-> vs]
Dict(d) == [kind |-> "dict", val |-> d]

DigitChars == <<"0","1","2","3","4","5","6","7","8","9">>

\* str(n) of an int n >= 0
RECURSIVE DecimalOf(_)
DecimalOf(n) ==
    IF n < 10 THEN <<DigitChars[n + 1]>>
    ELSE DecimalOf(n \div 10) \o <<DigitChars[(n % 10) + 1]>>

\* lines 200 and 202: str(value); the text of a structured value is kept as one element
PyStr(v) ==
    CASE v.kind = "str" -> v.val
      [] v.kind = "int" -> DecimalOf(v.val)
      [] v.kind = "float" -> DecimalOf(v.val[1]) \o <<".">> \o DecimalOf(v.val[2])
      [] v.kind = "bool" -> IF v.val THEN <<"T","r","u","e">> ELSE <<"F","a","l","s","e">>
      [] v.kind = "none" -> <<"N","o","n","e">>
      [] OTHER -> <<"str(", v.kind, ")">>

\* the metadata value handed to the store as it is
KeepValue(v) == v

\* lines 196-202 and 223-229: a scalar is kept, a list is comma-joined, anything else
\* becomes its str()
CleanValue(v) ==
    IF v.kind \in {"str", "int", "float", "bool", "none"} THEN v
    ELSE IF v.kind = "list"
         THEN Str(Join([i \in 1..Len(v.val) |-> PyStr(v.val[i])], <<",">>))
    ELSE Str(PyStr(v))

CleanMetadata(md) == [k \in DOMAIN md |-> CleanValue(md[k])]

Ids(store) == {store[i].id : i \in 1..Len(store)}

\* lines 60-64: the schema document of a table
SchemaDoc(t) ==
    [id |-> <<t, "_schema">>,
     content |-> <<t, " table contains columns: ... used for storing ...">>,
     metadata |-> [type |-> Str("schema"), table |-> Str(t)]]

\* lines 71-76: the sample document of a table with n sampled rows; the JSON text of
\* the rows is kept as the number of rows it holds
SampleDoc(t, n) ==
    [id |-> <<t, "_samples">>,
     content |-> <<"Sample data from ", t, " table: ", "rows: ">> \o DecimalOf(n),
     metadata |-> [type |-> Str("sample_data"), table |-> Str(t)]]

StaticDoc(id, type, key, val) ==
    [id |-> <<id>>, content |-> <<"text of ", id>>,
     metadata |-> [type |-> Str(type)] @@ (key :> Str(val))]

\* lines 82-184: the fixed library of relationship facts, patterns, examples and tips
StaticDocs ==
    << StaticDoc("users_orders_relationship", "relationship", "tables", "users,orders"),
       StaticDoc("basic_select", "pattern", "intent", "basic_select"),
       StaticDoc("filter_by_column", "pattern", "intent", "filter"),
       StaticDoc("count_records", "pattern", "intent", "count"),
       StaticDoc("join_tables", "pattern", "intent", "join"),
       StaticDoc("aggregation", "pattern", "intent", "aggregation"),
       StaticDoc("sorting", "pattern", "intent", "sorting"),
       StaticDoc("users_by_city", "example", "intent", "location_filter"),
       StaticDoc("orders_by_amount", "example", "intent", "amount_filter"),
       StaticDoc("recent_orders", "example", "intent", "recent_data"),
       StaticDoc("user_order_summary", "example", "intent", "user_summary"),
       StaticDoc("top_customers", "example", "intent", "top_customers"),
       StaticDoc("age_filter", "example", "intent", "age_filter"),
       StaticDoc("postgres_string_matching", "tip", "intent", "string_matching"),
       StaticDoc("postgres_date_functions", "tip", "intent", "date_functions"),
       StaticDoc("postgres_limits", "tip", "intent", "pagination") >>

\* lines 258-284: the tables _get_sample_data samples, in this order
SampledTables == <<"users", "orders">>

\* lines 267 and 71: LIMIT 3 and samples[:3]
SampleLimit == 3

\* lines 45-184: knowledge_items, for the tables introspection listed and the number
\* of rows sampled from users and from orders
KnowledgeItems(tables, rows) ==
    LET schema == [i \in 1..Len(tables) |-> SchemaDoc(tables[i])]
        HasRows(t) == rows[t] > 0
        sampled == SelectSeq(SampledTables, HasRows)
        samples == [i \in 1..Len(sampled) |->
                        SampleDoc(sampled[i],
                                  IF rows[sampled[i]] < SampleLimit THEN rows[sampled[i]]
                                  ELSE SampleLimit)]
    IN  schema \o samples \o StaticDocs

\* collection.add: the documents whose id the collection does not hold yet are
\* appended; the collection never holds an id twice
Add(store, docs) ==
    LET RECURSIVE AddAll(_, _)
        AddAll(st, ds) ==
            IF ds = <<>> THEN st
            ELSE AddAll(IF Head(ds).id \in Ids(st) THEN st ELSE Append(st, Head(ds)),
                        Tail(ds))
    IN  AddAll(store, docs)

\* a retry loop that gives up at the first item whose insert raises
RetryUntilFailure(store, items, failing) ==
    LET raising == {i \in 1..Len(items) : items[i].id \in failing}
        done == IF raising = {} THEN items ELSE SubSeq(items, 1, Min(raising) - 1)
    IN  [store |-> Add(store, done), success_count |-> Len(done)]

\* lines 217-238: the insert of one item at a time, in the order of knowledge_items;
\* failing is the set of ids whose own insert raises. An insert that raises is logged
\* and the loop goes on; success_count counts the inserts that returned.
RetryItems(store, items, failing) ==
    LET Succeeds(d) == d.id \notin failing
        done == SelectSeq(items, Succeeds)
    IN  [store |-> Add(store, done), success_count |-> Len(done)]

\* lines 193-203 and 219-229: the items with their metadata cleaned
CleanItems(items) ==
    [i \in 1..Len(items) |-> [items[i] EXCEPT !.metadata = CleanMetadata(items[i].metadata)]]

\* lines 186-240: the bulk insert, and the insert of one item at a time when the bulk
\* insert raised
InsertItems(store, items, bulk, failing) ==
    IF bulk = "ok" THEN Add(store, CleanItems(items))
    ELSE RetryItems(store, CleanItems(items), failing).store

\* populate_knowledge_base run when the collection is not empty: it inserts everything
\* again
PopulateAgain(store, tables, rows, bulk, failing) ==
    InsertItems(store, KnowledgeItems(tables, rows), bulk, failing)

\* a populate_knowledge_base that clears the collection and fills it again
ClearAndPopulate(store, tables, rows, bulk, failing) ==
    InsertItems(<<>>, KnowledgeItems(tables, rows), bulk, failing)

\* lines 31-240: the collection after populate_knowledge_base
populate_knowledge_base(store, tables, rows, bulk, failing) ==
    IF Len(store) > 0 THEN store
    ELSE InsertItems(store, KnowledgeItems(tables, rows), bulk, failing)

\* lines 42-43 and 216-238: schema_info, sample_data and success_count of a call of
\* populate_knowledge_base, with the outcomes of its inserts; a call that returned at
\* line 37 has none
NoPopulation == [bulk |-> "none"]

PopulateLocals(store, tables, rows, bulk, failing) ==
    IF Len(store) > 0 THEN NoPopulation
    ELSE [schema_info |-> tables, sample_data |-> rows, bulk |-> bulk, failing |-> failing,
          success_count |->
              IF bulk = "ok" THEN 0
              ELSE RetryItems(store, CleanItems(KnowledgeItems(tables, rows)),
                              failing).success_count]

\* line 342: hash(question + sql) under the process's hash seed; distinct strings
\* have distinct hashes
Hash(seed, s) == <<seed, s>>

\* line 342
QueryId(seed, q, s) == <<"learned_", Hash(seed, q \o s)>>

\* lines 353-355: the learned document
LearnedDoc(seed, q, s) ==
    [id |-> QueryId(seed, q, s),
     content |-> <<"Question: '">> \o q \o <<"' generates SQL: ">> \o s,
     metadata |-> [type |-> Str("learned_example"), success |-> Bool(TRUE)]]

\* lines 339-359: the collection after add_successful_query; get and add say whether
\* collection.get and collection.add raise
add_successful_query(store, seed, q, s, get, add) ==
    IF get = "ok" /\ QueryId(seed, q, s) \in Ids(store) THEN store
    ELSE IF add = "ok" THEN Add(store, <<LearnedDoc(seed, q, s)>>)
    ELSE store

\* a learn_from_query that records the pair whatever success says
LearnAlways(store, seed, q, s, success, get, add) ==
    add_successful_query(store, seed, q, s, get, add)

\* llm_service.py 242-249
learn_from_query(store, seed, q, s, success, get, add) ==
    IF success THEN add_successful_query(store, seed, q, s, get, add) ELSE store

\* llm_service.py:93, the top_k generate_sql asks for
GenerateTopK == 3

\* lines 317-320: collection.query, the n_results nearest documents, nearest first.
\* The similarity is the backend's: of the orders it may rank by, the model takes the
\* insertion order and its reverse.
QueryBackend(store, n_results, ranking) ==
    LET n == IF Len(store) < n_results THEN Len(store) ELSE n_results
    IN  IF ranking = "oldest" THEN SubSeq(store, 1, n)
        ELSE [i \in 1..n |-> store[Len(store) + 1 - i]]

\* retrieve_context without its except clause
RetrievePropagating(store, top_k, backend, ranking) ==
    IF backend = "raise" THEN [raised |-> TRUE, value |-> <<>>]
    ELSE LET docs == QueryBackend(store, top_k, ranking)
         IN  [raised |-> FALSE,
              value |-> [i \in 1..Len(docs) |->
                            [content |-> docs[i].content, metadata |-> docs[i].metadata]]]

\* lines 312-337: what retrieve_context returns, and whether it raised
retrieve_context(store, top_k, backend, ranking) ==
    IF backend = "raise" THEN [raised |-> FALSE, value |-> <<>>]
    ELSE LET docs == QueryBackend(store, top_k, ranking)
         IN  [raised |-> FALSE,
              value |-> [i \in 1..Len(docs) |->
                            [content |-> docs[i].content, metadata |-> docs[i].metadata]]]

-----------------------------------------------------------------------------
(* EnhancedLLMService.generate_sql and the endpoint (llm_service.py,         *)
(* sql_generator.py)                                                         *)

\* lines 150-153, 155-165 and 167 of the prompt template
PromptHeader == "You are a PostgreSQL expert. ... RELEVANT DATABASE KNOWLEDGE:\n"
PromptRules == "\n\nIMPORTANT RULES: ... USER QUESTION: "
PromptCue == "\n\nSQL QUERY:"

\* lines 144-148
ContextText(ctx) ==
    Join([i \in 1..Len(ctx) |-> <<"-", " ">> \o ctx[i].content], Newline)

\* lines 139-170
_build_rag_prompt(q, ctx) ==
    <<PromptHeader>> \o ContextText(ctx) \o <<PromptRules>> \o q \o <<PromptCue>>

\* the context block of a prompt: what lies between the header and the rules
ContextBlock(p) ==
    LET j == CHOOSE k \in 1..Len(p) : p[k] = PromptRules
    IN  SubSeq(p, 2, j - 1)

\* the locals of generate_sql before anything was retrieved, composed or invoked
NoCall ==
    [path |-> "none", sql |-> <<>>, invoked |-> 0, retrieved |-> 0, context |-> <<>>,
     prompt |-> <<>>, response |-> <<>>, raisedAt |-> "none", backendRaised |-> FALSE]

\* the placeholder without the question
PlaceholderWithoutQuestion(q) == PlaceholderHead \o PlaceholderTail

\* line 87
Placeholder(q) == PlaceholderHead \o q \o PlaceholderTail

\* the rule-based fallback taken when no model is configured
WithoutModelFallback(q) == [NoCall EXCEPT !.path = "fallback", !.sql = _fallback_sql(q)]

\* lines 85-87: no model is configured
WithoutModel(q) == [NoCall EXCEPT !.path = "placeholder", !.sql = Placeholder(q)]

\* the exception re-raised to the caller
Reraise(q, at, soFar) == [soFar EXCEPT !.path = "raised", !.raisedAt = at]

\* lines 127-137: the except clause; soFar holds the locals set before the exception
OnException(q, at, soFar) ==
    [soFar EXCEPT !.path = "fallback", !.sql = _fallback_sql(q), !.raisedAt = at]

\* lines 79-137: generate_sql. backend and ranking are the search backend's behaviour;
\* model is what llm.invoke does: "raise", "text" (content is the string text) or
\* "blocks" (content is a list of content blocks, on which .strip() raises)
generate_sql(isLlm, store, q, backend, ranking, model, text) ==
    IF ~isLlm THEN WithoutModel(q)
    ELSE LET ctx == retrieve_context(store, GenerateTopK, backend, ranking)
             retrieving == [NoCall EXCEPT !.retrieved = 1,
                                          !.backendRaised = (backend = "raise")]
             invoking == [retrieving EXCEPT !.context = ctx.value,
                                            !.prompt = _build_rag_prompt(q, ctx.value),
                                            !.invoked = 1]
         IN  IF ctx.raised THEN OnException(q, "retrieve", retrieving)
             ELSE IF model = "raise" THEN OnException(q, "invoke", invoking)
             ELSE IF model = "blocks" THEN OnException(q, "clean", invoking)
             ELSE [invoking EXCEPT !.path = "model", !.response = text,
                                   !.sql = _clean_sql_response(text)]

\* a success reported whether or not the history record was committed
ReplyWithoutCommit(g, db) == [sql |-> g.sql, status |-> "success", error |-> "None"]

\* sql_generator.py 14-33: the QueryResponse and the history after the endpoint ran;
\* db says whether db.add / db.commit raise
EndpointReply(g, db) ==
    IF g.path = "raised" THEN [sql |-> <<>>, status |-> "error", error |-> "str(e)"]
    ELSE IF db = "raise" THEN [sql |-> <<>>, status |-> "error", error |-> "str(e)"]
    ELSE [sql |-> g.sql, status |-> "success", error |-> "None"]

EndpointHistory(h, q, g, db) ==
    IF g.path # "raised" /\ db = "ok"
    THEN Append(h, [natural_query |-> q, generated_sql |-> g.sql, status |-> "success"])
    ELSE h

-----------------------------------------------------------------------------
(* Values of the variables that an operation has not set *)

NoParts == [fenced |-> FALSE]
NoReply == [status |-> "none"]
NoDatabase == [tables |-> <<>>]

\* everything but pc, question, response, parts, sql and path
ServiceIdle ==
    /\ llm = FALSE
    /\ collection = <<>>
    /\ hashSeed = 0
    /\ database = NoDatabase
    /\ history = <<>>
    /\ prompt = <<>>
    /\ invoked = 0
    /\ retrieved = 0
    /\ context = <<>>
    /\ raisedAt = "none"
    /\ backendRaised = FALSE
    /\ population = NoPopulation
    /\ reply = NoReply
    /\ threads = <<>>

-----------------------------------------------------------------------------
(* SpecFallback: _fallback_sql applied to every question of at most MaxWords *)
(* words, joined by single spaces, and to the example questions             *)

\* questions asked by name
CountUsersOrders ==
    <<"c","o","u","n","t"," ","u","s","e","r","s"," ","o","r","d","e","r","s">>

Q_ShowUsersNewYork ==
    <<"s","h","o","w"," ","m","e"," ","u","s","e","r","s"," ","i","n"," ",
      "n","e","w"," ","y","o","r","k">>
Q_UsersUnder18 == <<"u","s","e","r","s"," ","u","n","d","e","r"," ","1","8">>
Q_DeleteAllTables ==
    <<"d","e","l","e","t","e"," ","a","l","l"," ","t","a","b","l","e","s">>
Q_TopCustomers == <<"T","o","p"," ","c","u","s","t","o","m","e","r","s","?">>
Q_OrdersByPrice == <<"O","r","d","e","r","s"," ","b","y"," ","p","r","i","c","e">>
Q_JoinThem == <<"j","o","i","n"," ","t","h","e","m">>
Q_AgeUnder == <<"a","g","e"," ","u","n","d","e","r"," ","3","0">>
Q_DropTable == <<"D","R","O","P"," ","t","a","b","l","e">>
Q_UsersByCity == <<"u","s","e","r","s"," ","b","y"," ","c","i","t","y">>

\* the three questions of the keyword precedence examples
ExampleQuestions == { Q_DeleteAllTables, Q_ShowUsersNewYork, Q_UsersUnder18 }

Words ==
    { <<"d","e","l","e","t","e">>,
      <<"d","r","o","p">>,
      <<"t","a","b","l","e">>,
      <<"a","l","l">>,
      <<"u","s","e","r","s">>,
      <<"c","i","t","y">>,
      <<"o","r","d","e","r","s">>,
      <<"a","m","o","u","n","t">>,
      <<"p","r","i","c","e">>,
      <<"c","o","u","n","t">>,
      <<"j","o","i","n">>,
      <<"u","n","d","e","r">>,
      <<"a","g","e">>,
      <<"1","8">>,
      <<"s","h","o","w">>,
      <<"U","s","e","r","s">>,
      <<"C","O","U","N","T">> }

RECURSIVE Phrases(_)
Phrases(n) ==
    IF n = 0 THEN {<<>>}
    ELSE Phrases(n - 1) \cup
         {IF p = <<>> THEN w ELSE p \o <<" ">> \o w : p \in Phrases(n - 1), w \in Words}

InitFallback ==
    /\ ServiceIdle
    /\ pc = "fallback"
    /\ question \in Phrases(MaxWords) \cup ExampleQuestions
    /\ response = <<>>
    /\ parts = NoParts
    /\ sql = <<>>
    /\ path = "none"

\* the call _fallback_sql(question)
FallbackStep ==
    /\ pc = "fallback"
    /\ sql' = _fallback_sql(question)
    /\ path' = "fallback"
    /\ pc' = "done"
    /\ UNCHANGED <<database,
                   llm, collection, hashSeed, history, question, response, parts, threads,
                   prompt,
                   invoked, retrieved, context, raisedAt, backendRaised, population,
                   reply>>

SpecFallback == InitFallback /\ [][FallbackStep]_vars

-----------------------------------------------------------------------------
(* SpecClean: _clean_sql_response applied to raw model outputs of at most   *)
(* MaxPieces pieces and to fenced outputs of at most MaxLines fenced lines  *)

Pieces ==
    { Fence, <<"s","q","l">>, Newline, <<" ">>, CommentMarker, <<"a">>, Semicolon }

RECURSIVE RawOutputs(_)
RawOutputs(n) ==
    IF n = 0 THEN {<<>>}
    ELSE RawOutputs(n - 1) \cup {r \o p : r \in RawOutputs(n - 1), p \in Pieces}

\* the language tags after the opening fence: none, sql, SQL
Tags == { <<>>, <<"s","q","l">>, <<"S","Q","L">> }

\* prose before and after the fenced block
ProseBefore == { <<>>, <<"S","e","e",":","\n">> }
ProseAfter == { <<>>, <<"\n","o","k">>, <<"\n","o","k",";">> }

\* the lines a fenced block is made of
FencedLines ==
    { <<"a">>, <<" ","b">>, <<"c",";">>, <<>>, <<"-","-","x">>, <<"-","-"," ","y">> }

RECURSIVE Bodies(_)
Bodies(n) ==
    IF n = 0 THEN {<<>>}
    ELSE Bodies(n - 1) \cup {Append(b, l) : b \in Bodies(n - 1), l \in FencedLines}

FencedParts ==
    [fenced : {TRUE}, before : ProseBefore, tag : Tags, body : Bodies(MaxLines),
     after : ProseAfter]

\* prose, opening fence with its tag, the fenced lines, closing fence, prose
FencedOutput(p) ==
    p.before \o Fence \o p.tag \o Newline \o Join(p.body, Newline) \o Newline \o Fence
      \o p.after

InitClean ==
    /\ ServiceIdle
    /\ pc = "cleaning"
    /\ question = <<>>
    /\ \/ parts = NoParts /\ response \in RawOutputs(MaxPieces)
       \/ parts \in FencedParts /\ response = FencedOutput(parts)
    /\ sql = <<>>
    /\ path = "none"

\* the call _clean_sql_response(response.content)
CleanStep ==
    /\ pc = "cleaning"
    /\ sql' = _clean_sql_response(response)
    /\ path' = "model"
    /\ pc' = "done"
    /\ UNCHANGED <<database,
                   llm, collection, hashSeed, history, question, response, parts, threads,
                   prompt,
                   invoked, retrieved, context, raisedAt, backendRaised, population,
                   reply>>

SpecClean == InitClean /\ [][CleanStep]_vars

-----------------------------------------------------------------------------
(* Spec: the two services over one process run. Every operation is one call of *)
(* a public method; pc names the return statement the last call took.          *)

\* most individual inserts that fail in one populate_knowledge_base
MaxFailures == 1
\* number of hash seeds a process may start with
NumSeeds == 2

\* the questions of the requests of SpecGen: one for each rule of the fallback (the
\* drop rule twice), and questions no rule matches
GenQuestions ==
    { <<>>, Q_TopCustomers, Q_ShowUsersNewYork, Q_UsersUnder18, Q_DeleteAllTables,
      Q_DropTable, Q_UsersByCity, Q_OrdersByPrice, CountUsersOrders, Q_JoinThem,
      Q_AgeUnder }

\* the questions, statements and model outputs of the calls of Spec
ServiceQuestions == { Q_UsersByCity }
LearnQuestions == { Q_TopCustomers, Q_UsersByCity }
LearnSqls == { CountSql }
ServiceOutputs ==
    { Fence \o <<"s","q","l","\n","S","E","L","E","C","T"," ","2","\n">> \o Fence }

\* what schema introspection lists (lines 242-256; the empty list also when it raises)
SchemaOutcomes == { <<>>, <<"orders", "query_history", "users">> }

\* how many rows the sample queries return (lines 258-284; 0 also when they raise)
SampleOutcomes == [users : {0, SampleLimit}, orders : {0, SampleLimit}]

\* the items whose own insert may raise while others work: a schema document, a sample
\* document, the first and the last fixed document
FailableIds ==
    { <<"users", "_schema">>, <<"orders", "_samples">>, <<"users_orders_relationship">>,
      <<"postgres_limits">> }

\* how the inserts of items go (lines 206-240): the bulk insert works; or it raises and
\* every insert of a single item raises too; or it raises and at most MaxFailures of
\* the inserts of single items raise too
InsertOutcomes(items) ==
    {[bulk |-> "ok", failing |-> {}], [bulk |-> "raise", failing |-> Ids(items)]} \cup
    {[bulk |-> "raise", failing |-> F] :
        F \in {G \in SUBSET FailableIds : Cardinality(G) <= MaxFailures}}

Outcome == {"ok", "raise"}
Rankings == {"oldest", "newest"}

\* what llm.invoke does: it raises, it returns a list of content blocks, or it returns
\* one of the given texts
ModelReplies(texts) ==
    {[kind |-> "raise", text |-> <<>>], [kind |-> "blocks", text |-> <<>>]} \cup
    {[kind |-> "text", text |-> t] : t \in texts}

Init ==
    /\ llm \in BOOLEAN
    /\ collection = <<>>
    /\ hashSeed \in 1..NumSeeds
    /\ database = NoDatabase
    /\ history = <<>>
    /\ pc = "init"
    /\ question = <<>>
    /\ response = <<>>
    /\ parts = NoParts
    /\ prompt = <<>>
    /\ sql = <<>>
    /\ path = "none"
    /\ invoked = 0
    /\ retrieved = 0
    /\ context = <<>>
    /\ raisedAt = "none"
    /\ backendRaised = FALSE
    /\ population = NoPopulation
    /\ reply = NoReply
    /\ threads = <<>>

\* the locals of a call of generate_sql, as the model's variables
Locals(g) ==
    /\ response' = g.response
    /\ prompt' = g.prompt
    /\ sql' = g.sql
    /\ path' = g.path
    /\ invoked' = g.invoked
    /\ retrieved' = g.retrieved
    /\ context' = g.context
    /\ raisedAt' = g.raisedAt
    /\ backendRaised' = g.backendRaised

\* the database and the insert outcomes a populate_knowledge_base may meet. With a
\* non-empty collection it returns at line 37 before it reads any of them, so one
\* stands for all.
PopulateInputs(store) ==
    IF Len(store) > 0
    THEN {[tables |-> <<"orders", "query_history", "users">>,
           rows |-> [users |-> SampleLimit, orders |-> SampleLimit],
           bulk |-> "ok", failing |-> {}]}
    ELSE UNION {{[tables |-> t, rows |-> r, bulk |-> o.bulk, failing |-> o.failing] :
                    o \in InsertOutcomes(KnowledgeItems(t, r))} :
                t \in SchemaOutcomes, r \in SampleOutcomes}

\* rag_service.py 31-240 (called by __init__, line 29, and by the schema reload)
PopulateKnowledgeBase ==
    \E in \in PopulateInputs(collection) :
        /\ collection' = populate_knowledge_base(collection, in.tables, in.rows, in.bulk,
                                                 in.failing)
        /\ population' = PopulateLocals(collection, in.tables, in.rows, in.bulk, in.failing)
        /\ pc' = IF Len(collection) > 0 THEN "populate_skipped" ELSE "populated"
        /\ question' = <<>>
        /\ Locals(NoCall)
        /\ UNCHANGED <<database, llm, hashSeed, history, parts, threads, reply>>

\* rag_service.py:312, the default top_k
DefaultTopK == 5

\* rag_service.py 312-337
RetrieveContext ==
    \E q \in ServiceQuestions, backend \in Outcome, ranking \in Rankings :
        LET r == retrieve_context(collection, DefaultTopK, backend, ranking)
        IN  /\ pc' = IF r.raised THEN "retrieve_raised" ELSE "retrieved"
            /\ question' = q
            /\ Locals([NoCall EXCEPT !.retrieved = 1, !.context = r.value,
                                     !.backendRaised = (backend = "raise")])
            /\ population' = NoPopulation
            /\ UNCHANGED <<database, llm, collection, hashSeed, history, parts, threads, reply>>

\* llm_service.py 79-137
GenerateSql ==
    \E q \in ServiceQuestions, backend \in Outcome, ranking \in Rankings,
       m \in ModelReplies(ServiceOutputs) :
        /\ pc' = "generated"
        /\ question' = q
        /\ Locals(generate_sql(llm, collection, q, backend, ranking, m.kind, m.text))
        /\ population' = NoPopulation
        /\ UNCHANGED <<database, llm, collection, hashSeed, history, parts, threads, reply>>

\* llm_service.py 242-249 and rag_service.py 339-359
LearnFromQuery ==
    \E q \in LearnQuestions, s \in LearnSqls, success \in BOOLEAN,
       get \in Outcome, add \in Outcome :
        /\ collection' = learn_from_query(collection, hashSeed, q, s, success, get, add)
        /\ pc' = IF ~success THEN "learn_skipped"
                 ELSE IF get = "ok" /\ QueryId(hashSeed, q, s) \in Ids(collection)
                      THEN "learn_known"
                 ELSE IF add = "ok" THEN "learn_done"
                 ELSE "learn_failed"
        /\ question' = q
        /\ Locals([NoCall EXCEPT !.sql = s])
        /\ population' = NoPopulation
        /\ UNCHANGED <<database, llm, hashSeed, history, parts, threads, reply>>

Next == PopulateKnowledgeBase \/ RetrieveContext \/ GenerateSql \/ LearnFromQuery

Spec == Init /\ [][Next]_vars

-----------------------------------------------------------------------------
(* SpecGen: one request to the generate-sql endpoint, for every question of   *)
(* GenQuestions and every model output of at most GenPieces pieces            *)
(* or of ServiceOutputs                                                       *)

\* most pieces in a model output of SpecGen
GenPieces == 2

\* the collection after a populate_knowledge_base in which everything worked
PopulatedStore ==
    populate_knowledge_base(<<>>, <<"users", "orders">>,
                            [users |-> SampleLimit, orders |-> SampleLimit], "ok", {})

\* a statement of two lines, as _clean_sql_response joins them
TwoLineSql == <<"S","E","L","E","C","T"," ","1","\n","F","R","O","M"," ","t",";">>

\* the populated collection after add_successful_query learned a two-line statement
LearnedStore ==
    add_successful_query(PopulatedStore, 1, Q_TopCustomers, TwoLineSql, "ok", "ok")

InitGen ==
    /\ llm \in BOOLEAN
    /\ collection \in {<<>>, PopulatedStore, LearnedStore}
    /\ hashSeed = 1
    /\ database = NoDatabase
    /\ history = <<>>
    /\ pc = "pending"
    /\ question \in GenQuestions
    /\ response = <<>>
    /\ parts = NoParts
    /\ prompt = <<>>
    /\ sql = <<>>
    /\ path = "none"
    /\ invoked = 0
    /\ retrieved = 0
    /\ context = <<>>
    /\ raisedAt = "none"
    /\ backendRaised = FALSE
    /\ population = NoPopulation
    /\ reply = NoReply
    /\ threads = <<>>

\* sql_generator.py 14-33
GenerateSqlEndpoint ==
    /\ pc = "pending"
    /\ \E backend \in Outcome, ranking \in Rankings,
          m \in ModelReplies(RawOutputs(GenPieces) \cup ServiceOutputs), db \in Outcome :
          LET g == generate_sql(llm, collection, question, backend, ranking, m.kind, m.text)
          IN  /\ Locals(g)
              /\ reply' = EndpointReply(g, db)
              /\ history' = EndpointHistory(history, question, g, db)
    /\ pc' = "responded"
    /\ UNCHANGED <<database, llm, collection, hashSeed, question, parts, threads, population>>

SpecGen == InitGen /\ [][GenerateSqlEndpoint]_vars

-----------------------------------------------------------------------------
(* SpecLearn: feedback on successful queries against the persisted collection, *)
(* over process runs                                                           *)

InitLearn ==
    /\ llm = TRUE
    /\ collection = PopulatedStore
    /\ hashSeed \in 1..NumSeeds
    /\ database = NoDatabase
    /\ history = <<>>
    /\ pc = "init"
    /\ question = <<>>
    /\ response = <<>>
    /\ parts = NoParts
    /\ prompt = <<>>
    /\ sql = <<>>
    /\ path = "none"
    /\ invoked = 0
    /\ retrieved = 0
    /\ context = <<>>
    /\ raisedAt = "none"
    /\ backendRaised = FALSE
    /\ population = NoPopulation
    /\ reply = NoReply
    /\ threads = <<>>

\* a new process: Python draws the seed of its str hashes, and RAGService.__init__
\* (rag_service.py 10-29) opens the collection persisted under ./chroma_db and calls
\* populate_knowledge_base
Restart ==
    \E seed \in 1..NumSeeds, in \in PopulateInputs(collection) :
        /\ hashSeed' = seed
        /\ collection' = populate_knowledge_base(collection, in.tables, in.rows, in.bulk,
                                                 in.failing)
        /\ population' = PopulateLocals(collection, in.tables, in.rows, in.bulk, in.failing)
        /\ pc' = "restarted"
        /\ question' = <<>>
        /\ Locals(NoCall)
        /\ UNCHANGED <<database, llm, history, parts, threads, reply>>

NextLearn == LearnFromQuery \/ Restart

SpecLearn == InitLearn /\ [][NextLearn]_vars

-----------------------------------------------------------------------------
(* SpecInsert: the insert paths of the RAG service (bulk insert and retry of   *)
(* populate_knowledge_base, add_successful_query) on an empty collection, for  *)
(* items whose metadata holds a scalar, a list of at most MaxList scalars or a *)
(* dict                                                                        *)

\* most elements in a list-valued metadata entry
MaxList == 2

Scalars ==
    { Str(<<"a">>), Str(<<>>), IntV(0), IntV(12), FloatV(1, 5), Bool(TRUE), Bool(FALSE), None }

Lists(n) == UNION {[1..k -> Scalars] : k \in 0..n}

MetadataValues == Scalars \cup {List(l) : l \in Lists(MaxList)} \cup {Dict("d")}

\* a knowledge item whose metadata holds the value v
ItemWith(v) ==
    [id |-> <<"item">>, content |-> <<"text of ", "item">>,
     metadata |-> [type |-> Str("pattern"), tags |-> v]]

\* the item lists handed to the inserts: what populate_knowledge_base builds, and one
\* item for each metadata value
InsertableItems ==
    {<<ItemWith(v)>> : v \in MetadataValues} \cup
    {KnowledgeItems(<<"orders", "query_history", "users">>,
                    [users |-> SampleLimit, orders |-> SampleLimit])}

InitInsert ==
    /\ llm = TRUE
    /\ collection = <<>>
    /\ hashSeed = 1
    /\ database = NoDatabase
    /\ history = <<>>
    /\ \/ /\ pc = "inserting"
          /\ population \in [knowledge_items : InsertableItems, bulk : {"ok", "raise"},
                              failing : {{}}]
          /\ question = <<>>
          /\ sql = <<>>
       \/ /\ pc = "learning"
          /\ population = NoPopulation
          /\ question \in LearnQuestions
          /\ sql \in LearnSqls
    /\ response = <<>>
    /\ parts = NoParts
    /\ prompt = <<>>
    /\ path = "none"
    /\ invoked = 0
    /\ retrieved = 0
    /\ context = <<>>
    /\ raisedAt = "none"
    /\ backendRaised = FALSE
    /\ reply = NoReply
    /\ threads = <<>>

\* rag_service.py 186-240: the inserts of populate_knowledge_base
InsertStep ==
    /\ pc = "inserting"
    /\ collection' = InsertItems(collection, population.knowledge_items, population.bulk,
                                 population.failing)
    /\ pc' = "inserted"
    /\ UNCHANGED <<database,
                   llm, hashSeed, history, question, response, parts, threads, prompt, sql,
                   path,
                   invoked, retrieved, context, raisedAt, backendRaised, population, reply>>

\* rag_service.py 339-359
LearnStep ==
    /\ pc = "learning"
    /\ collection' = add_successful_query(collection, hashSeed, question, sql, "ok", "ok")
    /\ pc' = "learned"
    /\ UNCHANGED <<database,
                   llm, hashSeed, history, question, response, parts, threads, prompt, sql,
                   path,
                   invoked, retrieved, context, raisedAt, backendRaised, population, reply>>

NextInsert == InsertStep \/ LearnStep

SpecInsert == InitInsert /\ [][NextInsert]_vars

-----------------------------------------------------------------------------
(* SpecCurate: populate_knowledge_base on the empty collection, against a      *)
(* database of up to three tables with up to MaxRows rows each                 *)

\* most rows of a table
MaxRows == 4

\* the tables of models.py, in the order inspector.get_table_names() lists them
AllTables == <<"orders", "query_history", "users">>

\* the databases: any of the tables, each with no row, one row or MaxRows rows
Databases ==
    UNION {{[tables |-> SelectSeq(AllTables, LAMBDA t : t \in T), rows |-> r] :
               r \in {f \in [{"orders", "query_history", "users"} -> {0, 1, MaxRows}] :
                         \A t \in DOMAIN f : t \notin T => f[t] = 0}} :
           T \in SUBSET {"orders", "query_history", "users"}}

\* the sample queries of _get_sample_data (lines 258-284)
SampleQueries == {"users", "orders"}

\* lines 242-256: the tables introspection lists, none when it raises
_get_schema_info(db, inspecting) == IF inspecting = "raise" THEN <<>> ELSE db.tables

\* the tables whose sample query raised: those the database does not hold, those whose
\* query raised for another reason (raising), all of them when engine.connect() raised
FailedQueries(db, connect, raising) ==
    IF connect = "raise" THEN SampleQueries
    ELSE {t \in SampleQueries : t \in raising \/ \A k \in 1..Len(db.tables) : db.tables[k] # t}

\* lines 258-284: the number of rows sampled from users and from orders: the rows of
\* SELECT * FROM t LIMIT 3, none when the query raised
_get_sample_data(db, connect, raising) ==
    [t \in SampleQueries |->
        IF t \in FailedQueries(db, connect, raising) THEN 0
        ELSE IF db.rows[t] < SampleLimit THEN db.rows[t] ELSE SampleLimit]

InitCurate ==
    /\ llm = TRUE
    /\ collection = <<>>
    /\ hashSeed = 1
    /\ database \in Databases
    /\ history = <<>>
    /\ pc = "curating"
    /\ question = <<>>
    /\ response = <<>>
    /\ parts = NoParts
    /\ prompt = <<>>
    /\ sql = <<>>
    /\ path = "none"
    /\ invoked = 0
    /\ retrieved = 0
    /\ context = <<>>
    /\ raisedAt = "none"
    /\ backendRaised = FALSE
    /\ population = NoPopulation
    /\ reply = NoReply
    /\ threads = <<>>

\* rag_service.py 31-240, with what lines 42-43 read from the database
Curate ==
    /\ pc = "curating"
    /\ \E inspecting \in Outcome, connect \in Outcome, raising \in SUBSET SampleQueries,
          bulk \in Outcome :
           LET schema_info == _get_schema_info(database, inspecting)
               sample_data == _get_sample_data(database, connect, raising)
           IN  /\ collection' = populate_knowledge_base(collection, schema_info,
                                                        sample_data, bulk, {})
               /\ population' =
                      [failed_queries |-> FailedQueries(database, connect, raising)] @@
                      PopulateLocals(collection, schema_info, sample_data, bulk, {})
    /\ pc' = "curated"
    /\ UNCHANGED <<database, llm, hashSeed, history, question, response, parts, prompt,
                   sql, path, invoked, retrieved, context, raisedAt, backendRaised,
                   threads, reply>>

SpecCurate == InitCurate /\ [][Curate]_vars

-----------------------------------------------------------------------------
(* SpecReload: one request to the schema-reload endpoint, on a collection that *)
(* is empty or was populated earlier, against any of the databases             *)

\* the collections a reload may meet: the empty one, and those an earlier populate
\* filled while introspection listed no table, only users, or all tables
ReloadStores ==
    {<<>>} \cup
    {populate_knowledge_base(<<>>, tables, [t \in SampleQueries |-> 0], "ok", {}) :
        tables \in {<<>>, <<"users">>, AllTables}}

\* sql_generator.py 81-122: the reply of reload_schema. The exception of
\* populate_knowledge_base is caught at lines 91-92; one of the handler's own
\* introspection (lines 95-111) becomes HTTP 500.
ReloadReply(db, inspecting) ==
    IF inspecting = "raise" THEN [status |-> "http_500", success |-> FALSE, tables |-> <<>>]
    ELSE [status |-> "reloaded", success |-> TRUE, tables |-> db.tables]

InitReload ==
    /\ llm = TRUE
    /\ collection \in ReloadStores
    /\ hashSeed = 1
    /\ database \in Databases
    /\ history = <<>>
    /\ pc = "reloading"
    /\ question = <<>>
    /\ response = <<>>
    /\ parts = NoParts
    /\ prompt = <<>>
    /\ sql = <<>>
    /\ path = "none"
    /\ invoked = 0
    /\ retrieved = 0
    /\ context = <<>>
    /\ raisedAt = "none"
    /\ backendRaised = FALSE
    /\ population = NoPopulation
    /\ reply = NoReply
    /\ threads = <<>>

\* sql_generator.py 81-122, with the populate_knowledge_base it calls
ReloadSchema ==
    /\ pc = "reloading"
    /\ \E inspecting \in Outcome, connect \in Outcome, raising \in SUBSET SampleQueries,
          bulk \in Outcome, handler \in Outcome :
           LET schema_info == _get_schema_info(database, inspecting)
               sample_data == _get_sample_data(database, connect, raising)
           IN  /\ collection' = populate_knowledge_base(collection, schema_info,
                                                        sample_data, bulk, {})
               /\ population' = PopulateLocals(collection, schema_info, sample_data,
                                               bulk, {})
               /\ reply' = ReloadReply(database, handler)
    /\ pc' = "reload_done"
    /\ UNCHANGED <<database, llm, hashSeed, history, question, response, parts, prompt,
                   sql, path, invoked, retrieved, context, raisedAt, backendRaised,
                   threads>>

SpecReload == InitReload /\ [][ReloadSchema]_vars

-----------------------------------------------------------------------------
(* SpecPairs: successful feedback in one process for pairs of short strings,   *)
(* among them pairs whose concatenations question + sql are equal              *)

PairQuestions == { <<"a">>, <<"a", "b">> }
PairSqls == { <<"c">>, <<"b", "c">> }

InitPairs ==
    /\ llm = TRUE
    /\ collection \in {<<>>, PopulatedStore}
    /\ hashSeed \in 1..NumSeeds
    /\ database = NoDatabase
    /\ history = <<>>
    /\ pc = "init"
    /\ question = <<>>
    /\ response = <<>>
    /\ parts = NoParts
    /\ prompt = <<>>
    /\ sql = <<>>
    /\ path = "none"
    /\ invoked = 0
    /\ retrieved = 0
    /\ context = <<>>
    /\ raisedAt = "none"
    /\ backendRaised = FALSE
    /\ population = NoPopulation
    /\ reply = NoReply
    /\ threads = <<>>

\* llm_service.py 242-249 and rag_service.py 339-359: learn_from_query(q, s, True)
RecordPair ==
    \E q \in PairQuestions, s \in PairSqls, get \in Outcome, add \in Outcome :
        /\ collection' = learn_from_query(collection, hashSeed, q, s, TRUE, get, add)
        /\ pc' = IF get = "ok" /\ QueryId(hashSeed, q, s) \in Ids(collection)
                 THEN "learn_known"
                 ELSE IF add = "ok" THEN "learn_done"
                 ELSE "learn_failed"
        /\ question' = q
        /\ Locals([NoCall EXCEPT !.sql = s])
        /\ UNCHANGED <<database, llm, hashSeed, history, parts, threads, population, reply>>

SpecPairs == InitPairs /\ [][RecordPair]_vars

-----------------------------------------------------------------------------
(* SpecLearnRace: NumThreads concurrent calls of add_successful_query in one   *)
(* process. A call is two steps, the existence check of lines 345-350 and the  *)
(* insert of lines 352-356; the collection serves one operation at a time.     *)

\* number of concurrent calls
NumThreads == 2

\* how collection.add answers for an identifier the collection holds already: it raises,
\* or it logs and skips the document; the collection is left as it was either way
DuplicateOutcomes == {"raise", "skip"}

\* a call of add_successful_query(q, s) that has not started
LearnCall(q, s) ==
    [op |-> "learn", pc |-> "start", question |-> q, sql |-> s, outcome |-> "none",
     raised |-> FALSE]

\* the insert of add_successful_query with the exception of a failed insert left to
\* the caller
InsertPropagating(store, seed, call, add, dup) ==
    LET present == QueryId(seed, call.question, call.sql) \in Ids(store)
        raises == add = "raise" \/ (present /\ dup = "raise")
    IN  [store |-> IF raises THEN store
                   ELSE Add(store, <<LearnedDoc(seed, call.question, call.sql)>>),
         call |-> [call EXCEPT !.pc = "done", !.raised = raises,
                               !.outcome = IF raises THEN "failed" ELSE "added"]]

\* lines 345-350: the existence check; an exception of collection.get is passed over
ExistenceCheck(store, seed, call, get) ==
    IF get = "ok" /\ QueryId(seed, call.question, call.sql) \in Ids(store)
    THEN [call EXCEPT !.pc = "done", !.outcome = "known"]
    ELSE [call EXCEPT !.pc = "checked"]

\* lines 352-359: the insert, and the except clause that logs whatever it raised
InsertLearned(store, seed, call, add, dup) ==
    LET present == QueryId(seed, call.question, call.sql) \in Ids(store)
        raises == add = "raise" \/ (present /\ dup = "raise")
    IN  [store |-> IF raises THEN store
                   ELSE Add(store, <<LearnedDoc(seed, call.question, call.sql)>>),
         call |-> [call EXCEPT !.pc = "done",
                               !.outcome = IF raises THEN "failed"
                                           ELSE IF present THEN "skipped" ELSE "added"]]

InitLearnRace ==
    /\ llm = TRUE
    /\ collection \in {<<>>, PopulatedStore}
    /\ hashSeed = 1
    /\ database = NoDatabase
    /\ history = <<>>
    /\ pc = "racing"
    /\ question = <<>>
    /\ response = <<>>
    /\ parts = NoParts
    /\ prompt = <<>>
    /\ sql = <<>>
    /\ path = "none"
    /\ invoked = 0
    /\ retrieved = 0
    /\ context = <<>>
    /\ raisedAt = "none"
    /\ backendRaised = FALSE
    /\ population = NoPopulation
    /\ reply = NoReply
    /\ threads \in [1..NumThreads -> {LearnCall(q, s) : q \in LearnQuestions, s \in LearnSqls}]

LearnCheck(t) ==
    /\ threads[t].pc = "start"
    /\ \E get \in Outcome :
           threads' = [threads EXCEPT ![t] = ExistenceCheck(collection, hashSeed, @, get)]
    /\ UNCHANGED <<database,
                   llm, collection, hashSeed, history, pc, question, response, parts, prompt,
                   sql, path, invoked, retrieved, context, raisedAt, backendRaised,
                   population, reply>>

LearnInsert(t) ==
    /\ threads[t].pc = "checked"
    /\ \E add \in Outcome, dup \in DuplicateOutcomes :
           LET r == InsertLearned(collection, hashSeed, threads[t], add, dup)
           IN  /\ collection' = r.store
               /\ threads' = [threads EXCEPT ![t] = r.call]
    /\ UNCHANGED <<database,
                   llm, hashSeed, history, pc, question, response, parts, prompt, sql, path,
                   invoked, retrieved, context, raisedAt, backendRaised, population, reply>>

NextLearnRace == \E t \in 1..NumThreads : LearnCheck(t) \/ LearnInsert(t)

SpecLearnRace == InitLearnRace /\ [][NextLearnRace]_vars

-----------------------------------------------------------------------------
(* SpecPopulateRace: NumThreads executions of populate_knowledge_base against  *)
(* one empty collection and one database. An execution is the count check of   *)
(* line 35, the bulk insert of lines 206-210 and, when that raised, one insert *)
(* for each item (lines 217-236); the collection serves one operation at a     *)
(* time.                                                                       *)

\* what the sample queries of the racing executions return: nothing, or SampleLimit
\* rows of either table
RaceSamples == {r \in SampleOutcomes : r.users = r.orders}

\* an execution of populate_knowledge_base that has not started; schema_info and
\* sample_data are what lines 42-43 will read, on_duplicate is how the library in use
\* answers an insert under an id the collection holds
PopulateCall(tables, rows, dup) ==
    [op |-> "populate", pc |-> "start", schema_info |-> tables, sample_data |-> rows,
     on_duplicate |-> dup, knowledge_items |-> <<>>, bulk |-> "none", i |-> 0,
     failed |-> {}, raised |-> FALSE]

\* knowledge_items of an execution, with the metadata cleaned
ItemsOf(call) == CleanItems(KnowledgeItems(call.schema_info, call.sample_data))

\* lines 35-184: the execution returns when the collection holds anything, and builds
\* knowledge_items otherwise
CountCheck(store, call) ==
    IF Len(store) > 0 THEN [call EXCEPT !.pc = "done"]
    ELSE [call EXCEPT !.pc = "built", !.knowledge_items = ItemsOf(call)]

\* lines 206-216: the bulk insert. It raises for reasons of its own, or because the collection holds one of the ids, and then stores nothing and the
\* execution goes on to the loop of line 217; otherwise the
\* documents the collection does not hold yet are stored.
BulkInsert(store, call, bulk) ==
    LET present == Ids(call.knowledge_items) \cap Ids(store) # {}
        raises == bulk = "raise" \/ (present /\ call.on_duplicate = "raise")
    IN  IF raises
        THEN [store |-> store,
              call |-> [call EXCEPT !.bulk = "raise",
                                    !.pc = IF Len(call.knowledge_items) = 0 THEN "done"
                                           ELSE "retrying",
                                    !.i = 1]]
        ELSE [store |-> Add(store, call.knowledge_items),
              call |-> [call EXCEPT !.bulk = "ok", !.pc = "done"]]

\* a loop of single inserts that ends at the first insert that raises
ItemInsertAbandoning(store, call, add) ==
    LET item == call.knowledge_items[call.i]
        present == item.id \in Ids(store)
        raises == add = "raise" \/ (present /\ call.on_duplicate = "raise")
    IN  [store |-> IF raises THEN store ELSE Add(store, <<item>>),
         call |-> [call EXCEPT !.i = @ + 1,
                               !.failed = IF add = "raise" THEN @ \cup {item.id} ELSE @,
                               !.pc = IF raises \/ call.i = Len(call.knowledge_items)
                                      THEN "done" ELSE "retrying"]]

\* lines 217-236: one turn of the loop, the insert of item i. An insert that raises,
\* for reasons of its own (add = "raise", only for the ids of FailableIds) or because
\* the collection holds the id, is logged and the loop goes on. success_count is only
\* printed and is not kept here.
ItemInsert(store, call, add) ==
    LET item == call.knowledge_items[call.i]
        present == item.id \in Ids(store)
        raises == add = "raise" \/ (present /\ call.on_duplicate = "raise")
    IN  [store |-> IF raises THEN store ELSE Add(store, <<item>>),
         call |-> [call EXCEPT !.i = @ + 1,
                               !.failed = IF add = "raise" THEN @ \cup {item.id} ELSE @,
                               !.pc = IF call.i = Len(call.knowledge_items)
                                      THEN "done" ELSE "retrying"]]

InitPopulateRace ==
    /\ llm = TRUE
    /\ collection = <<>>
    /\ hashSeed = 1
    /\ database = NoDatabase
    /\ history = <<>>
    /\ pc = "racing"
    /\ question = <<>>
    /\ response = <<>>
    /\ parts = NoParts
    /\ prompt = <<>>
    /\ sql = <<>>
    /\ path = "none"
    /\ invoked = 0
    /\ retrieved = 0
    /\ context = <<>>
    /\ raisedAt = "none"
    /\ backendRaised = FALSE
    /\ population = NoPopulation
    /\ reply = NoReply
    /\ \E tables \in SchemaOutcomes, rows \in RaceSamples, dup \in DuplicateOutcomes :
           threads = [t \in 1..NumThreads |-> PopulateCall(tables, rows, dup)]

PopulateCount(t) ==
    /\ threads[t].pc = "start"
    /\ threads' = [threads EXCEPT ![t] = CountCheck(collection, @)]
    /\ UNCHANGED <<database,
                   llm, collection, hashSeed, history, pc, question, response, parts, prompt,
                   sql, path, invoked, retrieved, context, raisedAt, backendRaised,
                   population, reply>>

PopulateBulk(t) ==
    /\ threads[t].pc = "built"
    /\ \E bulk \in Outcome :
           LET r == BulkInsert(collection, threads[t], bulk)
           IN  /\ collection' = r.store
               /\ threads' = [threads EXCEPT ![t] = r.call]
    /\ UNCHANGED <<database,
                   llm, hashSeed, history, pc, question, response, parts, prompt, sql, path,
                   invoked, retrieved, context, raisedAt, backendRaised, population, reply>>

PopulateItem(t) ==
    /\ threads[t].pc = "retrying"
    /\ \E add \in Outcome :
           /\ add = "raise" =>
                  /\ threads[t].knowledge_items[threads[t].i].id \in FailableIds
                  /\ Cardinality(threads[t].failed) < MaxFailures
           /\ LET r == ItemInsert(collection, threads[t], add)
              IN  /\ collection' = r.store
                  /\ threads' = [threads EXCEPT ![t] = r.call]
    /\ UNCHANGED <<database,
                   llm, hashSeed, history, pc, question, response, parts, prompt, sql, path,
                   invoked, retrieved, context, raisedAt, backendRaised, population, reply>>

NextPopulateRace ==
    \E t \in 1..NumThreads : PopulateCount(t) \/ PopulateBulk(t) \/ PopulateItem(t)

SpecPopulateRace == InitPopulateRace /\ [][NextPopulateRace]_vars

-----------------------------------------------------------------------------
(* Properties of generate_sql and the endpoint (SpecGen) *)

\* C1: for every question and every path through generation (no-model placeholder,
\* cleaned model output, rule-based fallback), whenever the generate-sql response has
\* status "success" its sql is non-empty and its last non-whitespace character is ';'.
C1_SuccessSqlTerminated ==
    (pc = "responded" /\ reply.status = "success") =>
        /\ path \in {"placeholder", "model", "fallback"}
        /\ reply.sql = sql
        /\ reply.sql # <<>>
        /\ EndsWith(RStrip(reply.sql), Semicolon)

\* a success whose sql is a model output that came without a terminator
C1_Witness ==
    /\ pc = "responded"
    /\ reply.status = "success"
    /\ path = "model"
    /\ response # <<>>
    /\ ~EndsWith(RStrip(response), Semicolon)
    /\ EndsWith(reply.sql, Semicolon)

\* C2: when a model is available, an exception raised during context retrieval, prompt
\* composition, model invocation or response cleaning makes generate_sql return exactly
\* the rule-based fallback string for the question; generate_sql never propagates an
\* exception to its caller.
C2_ExceptionsEndInFallback ==
    (pc = "responded" /\ llm) =>
        /\ path # "raised"
        /\ raisedAt # "none" => (path = "fallback" /\ sql = _fallback_sql(question))

\* the model's content was a list of blocks, cleaning raised, and the city rule of the
\* fallback answered
C2_Witness ==
    /\ pc = "responded"
    /\ llm
    /\ raisedAt = "clean"
    /\ invoked = 1
    /\ question = Q_UsersByCity
    /\ sql = CitySql

\* C3: for every question, when the model is unconfigured generate_sql returns a
\* non-empty placeholder SQL string that contains the question text, and performs
\* neither a model invocation nor a context retrieval.
C3_PlaceholderWithoutModel ==
    (pc = "responded" /\ ~llm) =>
        /\ path = "placeholder"
        /\ sql # <<>>
        /\ Contains(sql, question)
        /\ invoked = 0
        /\ retrieved = 0

\* a question answered by the placeholder, with a populated collection left unread
C3_Witness ==
    /\ pc = "responded"
    /\ ~llm
    /\ question = Q_DeleteAllTables
    /\ Len(collection) > 0
    /\ sql = Placeholder(Q_DeleteAllTables)
    /\ invoked = 0

\* C4, as stated: on every failure kind, including the model being unavailable,
\* generate_sql resolves through the rule-based fallback generator: the result with an
\* unavailable model equals the keyword fallback for the question.
C4_UnavailableModelIsFallback ==
    (pc = "responded" /\ ~llm) => sql = _fallback_sql(question)

\* C4, amended: a failure met while a model is available (invocation or cleaning
\* raising) resolves through the rule-based fallback generator; an unavailable model
\* does not: generate_sql then returns the placeholder statement around the question,
\* which differs from the keyword fallback for every question.
C4_FailuresWithModelAreFallback ==
    pc = "responded" =>
        /\ (llm /\ raisedAt # "none") => sql = _fallback_sql(question)
        /\ ~llm => (sql = Placeholder(question) /\ sql # _fallback_sql(question))

\* the same question answered by the placeholder where the fallback has a rule for it
C4_Witness ==
    /\ pc = "responded"
    /\ ~llm
    /\ question = CountUsersOrders
    /\ _fallback_sql(question) = CountSql
    /\ sql = Placeholder(CountUsersOrders)

\* C15: the generate-sql endpoint never raises: every response is either status
\* "success" carrying the SQL string generate_sql returned, given only after a
\* query-history record with that same SQL was committed, or status "error" carrying an
\* error message and an empty sql payload.
C15_EndpointReplies ==
    pc = "responded" =>
        \/ /\ reply.status = "success"
           /\ reply.sql = sql
           /\ Len(history) = 1
           /\ history[1].natural_query = question
           /\ history[1].generated_sql = reply.sql
        \/ /\ reply.status = "error"
           /\ reply.sql = <<>>
           /\ reply.error # "None"

\* the model's SQL was cleaned, the commit of the history record raised, and the
\* endpoint answered with an error and no SQL
C15_Witness ==
    /\ pc = "responded"
    /\ path = "model"
    /\ sql # <<>>
    /\ history = <<>>
    /\ reply.status = "error"
    /\ reply.sql = <<>>

\* the lines of the context block of a prompt
ContextLines(p) ==
    IF ContextBlock(p) = <<>> THEN <<>> ELSE Split(ContextBlock(p), Newline)

\* C16: for every question and every retrieved context (learned examples whose content
\* spans several lines included), the composed prompt renders each context document as
\* exactly one bullet line, in retrieval order, so the context block has as many lines
\* as there are context documents; with an empty context the composer emits an empty
\* context block followed by the literal question.
C16_OneBulletLinePerDocument ==
    (pc = "responded" /\ invoked = 1) =>
        /\ Len(ContextLines(prompt)) = Len(context)
        /\ \A i \in 1..Len(context) :
               ContextLines(prompt)[i] = <<"-", " ">> \o context[i].content
        /\ context = <<>> =>
               prompt = <<PromptHeader, PromptRules>> \o question \o <<PromptCue>>

-----------------------------------------------------------------------------
(* Properties of the knowledge base (Spec, SpecLearn) *)

\* C8: populate_knowledge_base is idempotent: a call made while the store holds at
\* least one document inserts nothing and leaves the store unchanged, so a second call
\* in sequence leaves the document count the first call left.
C8_PopulateIdempotent ==
    [][(pc' \in {"populated", "populate_skipped"} /\ Len(collection) > 0) =>
            (pc' = "populate_skipped" /\ collection' = collection)]_vars

\* populate_knowledge_base returned at its count check, on a collection that an earlier
\* call had filled without any schema document
C8_Witness ==
    /\ pc = "populate_skipped"
    /\ Len(collection) > 0
    /\ SchemaDoc("users").id \notin Ids(collection)

\* C11: if the bulk insert during population fails, each document is retried on its
\* own: every document whose own insert succeeds is stored, a document whose insert
\* fails does not keep the documents after it from being stored, the reported success
\* count equals the number stored by the retry, and populate returns normally.
C11_RetryStoresTheRest ==
    (pc = "populated" /\ population.bulk = "raise") =>
        LET items == CleanItems(KnowledgeItems(population.schema_info,
                                               population.sample_data))
            kept == {i \in 1..Len(items) : items[i].id \notin population.failing}
        IN  /\ \A i \in kept : \E j \in 1..Len(collection) : collection[j] = items[i]
            /\ \A j \in 1..Len(collection) : collection[j].id \notin population.failing
            /\ population.success_count = Cardinality(kept)
            /\ population.success_count = Len(collection)

\* the bulk insert raised, the insert of a schema document raised again, and the items
\* after it, down to the last one, are stored
C11_Witness ==
    /\ pc = "populated"
    /\ population.bulk = "raise"
    /\ population.failing = {SchemaDoc("users").id}
    /\ population.schema_info # <<>>
    /\ SchemaDoc("users").id \notin Ids(collection)
    /\ SampleDoc("orders", SampleLimit).id \in Ids(collection)
    /\ collection[Len(collection)].id = StaticDocs[Len(StaticDocs)].id
    /\ population.success_count = Len(collection)

IsScalar(v) == v.kind \in {"str", "int", "float", "bool", "none"}

\* C12: every metadata value handed to the store by an insert path of the RAG service
\* (bulk populate, per-item retry, learned example) is a scalar (string, number, boolean
\* or null): a scalar is handed over as it is, a list value is replaced by the
\* comma-joined string of its elements, any other structured value by its string form.
C12_MetadataScalar ==
    /\ pc \in {"inserted", "learned"} =>
           \A j \in 1..Len(collection) : \A k \in DOMAIN collection[j].metadata :
               IsScalar(collection[j].metadata[k])
    /\ pc = "inserted" =>
           /\ Len(collection) = Len(population.knowledge_items)
           /\ \A j \in 1..Len(collection) : \A k \in DOMAIN collection[j].metadata :
                  LET given == population.knowledge_items[j].metadata[k]
                      stored == collection[j].metadata[k]
                  IN  /\ IsScalar(given) => stored = given
                      /\ given.kind = "list" =>
                             /\ stored.kind = "str"
                             /\ Split(stored.val, <<",">>) =
                                    IF given.val = <<>> THEN << <<>> >>
                                    ELSE [i \in 1..Len(given.val) |-> PyStr(given.val[i])]
                      /\ given.kind = "dict" => stored = Str(<<"str(", "dict", ")">>)

\* the per-item retry stored the list ["a", 12] as the string "a,12"
C12_Witness ==
    /\ pc = "inserted"
    /\ population.bulk = "raise"
    /\ population.knowledge_items[1].metadata.tags = List(<<Str(<<"a">>), IntV(12)>>)
    /\ collection[1].metadata.tags = Str(<<"a", ",", "1", "2">>)

\* the learned_example documents the collection holds for the pair (q, s)
LearnedDocsOf(q, s) ==
    {i \in 1..Len(collection) :
        /\ collection[i].metadata.type = Str("learned_example")
        /\ collection[i].content = LearnedDoc(hashSeed, q, s).content}

\* C9: after any sequence of successful-feedback calls, the store holds at most one
\* learned_example document per (question, sql) pair: a call for a pair recorded before
\* leaves the store unchanged.
C9_OneLearnedDocPerPair ==
    \A q \in LearnQuestions, s \in LearnSqls : Cardinality(LearnedDocsOf(q, s)) <= 1

\* C17: the learned-example identifier is a function of (question, sql) alone, the same
\* in every process run: a learned document recorded in any run carries the identifier
\* the current run computes for its pair, so recording a pair before and after a
\* restart against the persisted store leaves exactly one learned document for it.
C17_IdentifierStableAcrossRuns ==
    \A q \in LearnQuestions, s \in LearnSqls :
        /\ \A j \in LearnedDocsOf(q, s) : collection[j].id = QueryId(hashSeed, q, s)
        /\ pc \in {"learn_known", "learn_done"} /\ question = q /\ sql = s =>
               Cardinality(LearnedDocsOf(q, s)) = 1

\* the documents the collection holds under the identifier of the pair of a call
DocsUnderIdOf(call) ==
    {j \in 1..Len(collection) :
        collection[j].id = QueryId(hashSeed, call.question, call.sql)}

\* C18: under every interleaving of two concurrent add_successful_query calls for the
\* same pair, the one where both pass the existence check before either inserts
\* included, the store ends with exactly one document under that identifier, no other
\* document is changed, and neither call raises to its caller.
C18_ConcurrentLearnOnce ==
    /\ \A t \in DOMAIN threads : ~threads[t].raised
    /\ \A t \in DOMAIN threads :
           /\ Cardinality(DocsUnderIdOf(threads[t])) <= 1
           /\ threads[t].outcome \in {"known", "added", "skipped"} =>
                  \E j \in DocsUnderIdOf(threads[t]) :
                      collection[j] = LearnedDoc(hashSeed, threads[t].question,
                                                 threads[t].sql)
    /\ \A j \in 1..Len(collection) :
           \/ j <= Len(PopulatedStore) /\ collection[j] = PopulatedStore[j]
           \/ \E t \in DOMAIN threads : j \in DocsUnderIdOf(threads[t])

\* two calls for the same pair both passed the existence check before either inserted;
\* the first insert stored the document, the second met the identifier
C18_Witness ==
    /\ threads[1].question = threads[2].question
    /\ threads[1].outcome = "added"
    /\ threads[2].outcome \in {"skipped", "failed"}
    /\ Len(collection) = Len(PopulatedStore) + 1
    /\ Cardinality(DocsUnderIdOf(threads[1])) = 1

\* the documents of a collection, as a set
Documents(store) == {store[j] : j \in 1..Len(store)}

\* the executions that went past the count check of line 35
Populating == {t \in DOMAIN threads : threads[t].bulk # "none"}

\* the ids no execution stored: none when a bulk insert worked, otherwise those whose
\* own insert raised in every execution that got to them
NowhereStored ==
    IF \E t \in Populating : threads[t].bulk = "ok" THEN {}
    ELSE {id \in FailableIds : \A t \in Populating : id \in threads[t].failed}

\* C19: when two populate_knowledge_base executions race on an empty store, under every
\* interleaving of their bulk and per-item inserts the store holds each curated
\* document id exactly once, and once both are through it holds the document set of a
\* single populate run (one whose inserts raised only for the items that raised in
\* every execution); neither execution raises.
C19_ConcurrentPopulateOnce ==
    /\ \A t \in DOMAIN threads : ~threads[t].raised
    /\ \A j, k \in 1..Len(collection) : collection[j].id = collection[k].id => j = k
    /\ Documents(collection) \subseteq Documents(ItemsOf(threads[1]))
    /\ (\A t \in DOMAIN threads : threads[t].pc = "done") =>
           Documents(collection) =
               Documents(populate_knowledge_base(
                   <<>>, threads[1].schema_info, threads[1].sample_data,
                   IF NowhereStored = {} THEN "ok" ELSE "raise", NowhereStored))

\* both executions saw count 0 before either inserted, the first bulk insert worked,
\* the second met the ids and went through the loop of single inserts to its end
C19_Witness ==
    /\ threads[1].bulk = "ok"
    /\ threads[2].bulk = "raise"
    /\ threads[2].pc = "done"
    /\ threads[2].i > Len(StaticDocs)
    /\ Len(collection) = Len(ItemsOf(threads[1]))
    /\ Len(collection) > Len(StaticDocs)

C21_StoreChangesOnlyByPopulateAndLearn ==
    [][/\ pc' = "learn_skipped" => collection' = collection
       /\ (pc' = "generated" /\ path' \in {"placeholder", "model", "fallback"}) =>
              collection' = collection
       /\ collection' # collection =>
              \/ pc' = "populated" /\ collection = <<>>
              \/ pc' = "learn_done"]_vars

\* learn_from_query was called with success = False for a pair the populated store does
\* not hold, and the store holds no learned example
C21_Witness ==
    /\ pc = "learn_skipped"
    /\ Len(collection) > 0
    /\ QueryId(hashSeed, question, sql) \notin Ids(collection)
    /\ \A j \in 1..Len(collection) : collection[j].metadata.type # Str("learned_example")

\* the sample_data documents of table t among docs
SampleDocsOf(docs, t) ==
    {j \in 1..Len(docs) :
        /\ docs[j].metadata.type = Str("sample_data")
        /\ docs[j].metadata.table = Str(t)}

\* C23: when populate runs on an empty store, for every table reported by schema
\* introspection that has at least one row it synthesizes exactly one sample_data
\* document holding at most 3 rows of that table; a failed sample query on one table
\* yields no sample document for that table only and does not suppress the sample
\* document of any other table.
C23_OneSampleDocumentPerTable ==
    pc = "curated" =>
        \A k \in 1..Len(population.schema_info) :
            LET t == population.schema_info[k]
                n == database.rows[t]
            IN  /\ (n >= 1 /\ t \notin population.failed_queries) =>
                       /\ Cardinality(SampleDocsOf(collection, t)) = 1
                       /\ \A j \in SampleDocsOf(collection, t) :
                              collection[j] =
                                  SampleDoc(t, IF n < SampleLimit THEN n ELSE SampleLimit)
                /\ t \in population.failed_queries => SampleDocsOf(collection, t) = {}

\* C24: the schema-reload endpoint clears and repopulates the knowledge base: after it
\* returns success, the store holds a schema document for every table currently in
\* the database, also when the store was populated before the reload, or was
\* populated while the schema was unavailable.
C24_ReloadRefreshesSchema ==
    (pc = "reload_done" /\ reply.success) =>
        \A k \in 1..Len(database.tables) :
            \E j \in 1..Len(collection) : collection[j] = SchemaDoc(database.tables[k])

\* C25: distinct (question, sql) pairs never share a learned-example identifier because
\* of how the pair is combined: for different pairs recorded as successful in the same
\* process, pairs whose concatenations question + sql are equal included, the store
\* ends with one learned document for each pair (a call that stored the pair or found
\* it stored leaves exactly one learned document of that pair).
C25_PairsKeepApart ==
    pc \in {"learn_known", "learn_done"} =>
        /\ Cardinality(LearnedDocsOf(question, sql)) = 1
        /\ \A j \in 1..Len(collection) :
               collection[j].id = QueryId(hashSeed, question, sql) =>
                   j \in LearnedDocsOf(question, sql)

\* C10: retrieve_context never raises: it returns an empty sequence when the store is
\* empty or the search backend raises, and generate_sql (model available) then still
\* composes a prompt with an empty context block and invokes the model instead of
\* failing or going to fallback.
C10_RetrievalDegrades ==
    /\ pc # "retrieve_raised"
    /\ raisedAt # "retrieve"
    /\ (retrieved = 1 /\ (collection = <<>> \/ backendRaised)) => context = <<>>
    /\ (pc = "generated" /\ llm /\ (collection = <<>> \/ backendRaised)) =>
           /\ invoked = 1
           /\ ContextBlock(prompt) = <<>>
           /\ raisedAt = "none" => path = "model"

\* the search backend raised on a populated collection, and generate_sql returned the
\* cleaned output of the model it invoked with an empty context block
C10_Witness ==
    /\ pc = "generated"
    /\ llm
    /\ backendRaised
    /\ Len(collection) > 0
    /\ context = <<>>
    /\ invoked = 1
    /\ path = "model"

-----------------------------------------------------------------------------
(* Properties of _fallback_sql (SpecFallback) *)

\* the keyword condition of rule i of the cascade, on the lower-cased question
RuleHolds(i, ql) ==
    CASE i = 1 -> (Contains(ql, Kw_delete) \/ Contains(ql, Kw_drop)) /\ Contains(ql, Kw_table)
      [] i = 2 -> Contains(ql, Kw_users) /\ Contains(ql, Kw_city)
      [] i = 3 -> Contains(ql, Kw_orders) /\ (Contains(ql, Kw_amount) \/ Contains(ql, Kw_price))
      [] i = 4 -> Contains(ql, Kw_count) /\ Contains(ql, Kw_users)
      [] i = 5 -> Contains(ql, Kw_join) \/ (Contains(ql, Kw_users) /\ Contains(ql, Kw_orders))
      [] i = 6 -> Contains(ql, Kw_under) /\ Contains(ql, Kw_age)

\* the first rule whose condition holds, 0 when none does
FirstRule(ql) ==
    IF \E i \in 1..6 : RuleHolds(i, ql) THEN Min({i \in 1..6 : RuleHolds(i, ql)}) ELSE 0

\* s is an output of rule i for question q
IsRuleOutput(i, q, s) ==
    CASE i = 0 -> s = GenericHead \o q \o GenericTail
      [] i = 1 -> s \in {DropAllSql, DropOneSql}
      [] i = 2 -> s = CitySql
      [] i = 3 -> s = AmountSql
      [] i = 4 -> s = CountSql
      [] i = 5 -> s = JoinSql
      [] i = 6 -> /\ StartsWith(s, AgeSqlHead) /\ EndsWith(s, AgeSqlTail)
                  /\ Len(s) > Len(AgeSqlHead) + Len(AgeSqlTail)
                  /\ \A k \in (Len(AgeSqlHead) + 1)..(Len(s) - Len(AgeSqlTail)) : s[k] \in Digits

\* C5: the fallback generator returns the output of the first rule, in the order
\* (delete|drop)+table, users+city, orders+(amount|price), count+users,
\* join|(users+orders), under+age, whose keyword condition holds on the lower-cased
\* question, and the generic template around the literal question when none holds;
\* "count users orders" yields the count query, not the join.
C5_FirstRuleWins ==
    pc = "done" =>
        /\ IsRuleOutput(FirstRule(Lower(question)), question, sql)
        /\ question = CountUsersOrders => sql = CountSql

\* a question holding count, users and orders was answered with the count query
C5_Witness ==
    /\ pc = "done"
    /\ question = CountUsersOrders
    /\ RuleHolds(4, Lower(question)) /\ RuleHolds(5, Lower(question))
    /\ sql = CountSql

\* C13: for the question "show me users in new york" the fallback generator returns
\* the city filter on users, SELECT * FROM users WHERE city = 'New York' LIMIT 10;
C13_NewYorkGetsCityFilter ==
    (pc = "done" /\ question = Q_ShowUsersNewYork) => sql = CitySql

\* C14: for the question "users under 18" the fallback generator returns the age filter
\* on users with 18 as the threshold, SELECT * FROM users WHERE age < 18 LIMIT 10;
C14_Under18GetsAgeFilter ==
    (pc = "done" /\ question = Q_UsersUnder18) =>
        sql = AgeSqlHead \o <<"1", "8">> \o AgeSqlTail

\* the first run of digits after the first "under" of s, <<>> when there is none
FirstIntegerAfterUnder(s) ==
    LET i == Min(Occurrences(s, Kw_under))
        digits == {k \in (i + Len(Kw_under))..Len(s) : s[k] \in Digits}
    IN  IF digits = {} THEN <<>>
        ELSE SubSeq(s, Min(digits), DigitsEnd(s, Min(digits)) - 1)

\* C22: for every question that reaches the under+age rule of the fallback, the
\* threshold of the returned age filter is the first integer that follows the word
\* "under" in the question, whether or not other words lie between them; the default
\* threshold 25 is used only when no integer follows "under".
C22_ThresholdIsFirstIntegerAfterUnder ==
    (pc = "done" /\ FirstRule(Lower(question)) = 6) =>
        LET n == FirstIntegerAfterUnder(Lower(question))
        IN  sql = AgeSqlHead \o (IF n = <<>> THEN DefaultAge ELSE n) \o AgeSqlTail

-----------------------------------------------------------------------------
(* Properties of _clean_sql_response (SpecClean) *)

\* s with a terminating semicolon
Terminated(s) == IF EndsWith(s, Semicolon) THEN s ELSE s \o Semicolon

\* the lines of a fenced block, without surrounding blanks and without empty lines
FencedText(body) ==
    LET NonBlank(l) == l # <<>>
    IN  Join(SelectSeq([i \in 1..Len(body) |-> Strip(body[i])], NonBlank), Newline)

\* C6: for a model output that wraps its SQL in a markdown fence, with or without a
\* language tag and optionally surrounded by prose, cleaning returns exactly the text
\* inside the fence terminated by ';': no fence marker, no language tag, no text from
\* outside the fence, and no fenced line lost.
C6_FencedContentOnly ==
    (pc = "done" /\ parts.fenced) => sql = Terminated(FencedText(parts.body))

\* C7: for every input that ends with ';' (ignoring trailing whitespace), cleaning the
\* cleaned output again changes nothing: clean(clean(x)) = clean(x).
C7_CleanIdempotent ==
    (pc = "done" /\ EndsWith(RStrip(response), Semicolon)) =>
        _clean_sql_response(sql) = sql

\* a semicolon-terminated input with a fence, a blank line and a comment line, which
\* cleaning changed
C7_Witness ==
    /\ pc = "done"
    /\ EndsWith(RStrip(response), Semicolon)
    /\ parts.fenced
    /\ \E i \in 1..Len(parts.body) : parts.body[i] = <<>>
    /\ \E i \in 1..Len(parts.body) : StartsWith(parts.body[i], CommentMarker)
    /\ sql # response

====
